---- MODULE Spec2Model ----
(***************************************************************************)
(* A model of ppagerank.cc, the driver of a distributed-memory PageRank.   *)
(*                                                                         *)
(* Every process of the group runs main().  A process is modelled by its   *)
(* position in main (pc), the value it returns from main (exitCode), and   *)
(* what it has done so far: the functions it called (ran), the messages it *)
(* handed to PetscPrintf (printed), the collective operations it entered   *)
(* (trace) and whether it called PetscFinalize (finalized).                *)
(*                                                                         *)
(* Library calls whose result the code tests return MPI_SUCCESS or an      *)
(* error code; the choice is nondeterministic, and independent on each     *)
(* process, as is the return of an MPI call.                               *)
(***************************************************************************)
EXTENDS Integers, Sequences, FiniteSets

VARIABLES
    size,           \* number of processes of PETSC_COMM_WORLD
    argc,           \* main's argc, the same on every process
    hasM,           \* the options database holds -m <filename>
    optScript,      \* the options database holds -script
    pc,             \* pc[p]: where process p is in main
    exitCode,       \* exitCode[p]: the value p returned from main
    finalized,      \* finalized[p]: p has called PetscFinalize
    errSeen,        \* errSeen[p]: some call on p returned an error code
    printed,        \* printed[p]: messages p handed to PetscPrintf
    ran,            \* ran[p]: functions of the program p has called
    script,         \* script[p]: main's local PetscTruth script
    rk,             \* rk[p]: index of the reduction p is at in the stats
    trace,          \* trace[p]: collectives p entered, in order
    barrierArrived, \* processes that entered the barrier of WriteHeader
    loadArrived,    \* processes that entered MatLoadBSMAT
    loadResult,     \* the error code the load returns
    contrib,        \* contrib[k]: processes that entered reduction k
    A,              \* the distributed matrix the load produced
    stats,          \* results of the reductions completed on rank 0, in order
    engPc,          \* position of a call of ComputePageRank
    engRet,         \* its return value
    alpha,          \* -alpha, in hundredths
    pvec,           \* -pvec, entries in units of 1/PDenom
    yielded         \* what ComputePageRank gave back to its caller

vars == <<size, argc, hasM, optScript, pc, exitCode, finalized, errSeen,
          printed, ran, script, rk, trace, barrierArrived, loadArrived,
          loadResult, contrib, A, stats, engPc, engRet, alpha, pvec, yielded>>

driverVars == <<pc, exitCode, finalized, errSeen, printed, ran, script, rk,
                trace, barrierArrived, loadArrived, loadResult, contrib, stats>>
optionVars == <<size, argc, hasM, optScript>>
engineVars == <<engPc, engRet, alpha, pvec, yielded>>

(***************************************************************************)
(* Bounds of the model.                                                    *)
(***************************************************************************)
NProcs == 2          \* processes in the driver runs
MaxErr == 1          \* error codes are 1 .. MaxErr
MaxDriverRows == 1   \* rows of the matrices the driver runs load
MaxProcs == 3        \* processes in the loader runs
MaxRows == 3         \* rows of the matrices the loader runs load
MaxDeg == 3          \* non-zeros per row
MaxWeight == 2       \* balancer weights are 0 .. MaxWeight
PDenom == 2          \* personalization entries are multiples of 1/PDenom

(***************************************************************************)
(* Program constants.                                                      *)
(***************************************************************************)
MPI_SUCCESS == 0
MinArgc == 2
ExitError == -1
NumReductions == 6
DefaultWeight == 1
DefaultAlpha == 85

ErrCodes == 1 .. MaxErr
Outcomes == {MPI_SUCCESS} \cup ErrCodes

Procs == 0 .. (size - 1)
Root == 0

NoMat == [m |-> 0, np |-> 0, file |-> <<>>, rowStart |-> <<>>, rowEnd |-> <<>>,
          redistributed |-> FALSE, wnnz |-> 0, wrows |-> 0, loaded |-> FALSE]
NoResult == [state |-> "None", vec |-> <<>>, iter |-> 0]

(***************************************************************************)
(* The matrix file and the loader.  A file is the sequence of the          *)
(* out-degrees (non-zeros) of its rows; row r of the matrix is f[r+1].     *)
(***************************************************************************)
FilesUpTo(maxn) == UNION {[1 .. n -> 0 .. MaxDeg] : n \in 0 .. maxn}
Weights == 0 .. MaxWeight

Min2(a, b) == IF a < b THEN a ELSE b
Abs(x) == IF x < 0 THEN -x ELSE x
SetMax(S) == CHOOSE x \in S : \A y \in S : y <= x
SetMin(S) == CHOOSE x \in S : \A y \in S : x <= y

\* DefaultEnd with the remainder rows forgotten.
DefaultEndNoRemainder(n, np, k) == (k + 1) * (n \div np)

\* Loader's default scheme: n div np rows each, the remainder one each to
\* the lowest ranks.  The first row after the block of rank k.
DefaultEnd(n, np, k) == (k + 1) * (n \div np) + Min2(k + 1, n % np)

\* Balancer: cost of one row, and the cost of rows 0 .. i-1.
RowCost(f, i, wn, wr) == wr + wn * f[i]

RECURSIVE PrefixCost(_, _, _, _)
PrefixCost(f, i, wn, wr) ==
    IF i = 0 THEN 0 ELSE PrefixCost(f, i - 1, wn, wr) + RowCost(f, i, wn, wr)

TotalCost(f, wn, wr) == PrefixCost(f, Len(f), wn, wr)

\* Distance with the target k * total, the division by np forgotten.
DistanceUnscaled(f, i, k, np, wn, wr) ==
    Abs(PrefixCost(f, i, wn, wr) - k * TotalCost(f, wn, wr))

\* Distance of the cumulative cost before row i from k * total / np,
\* scaled by np to stay in the integers.
Distance(f, i, k, np, wn, wr) ==
    Abs(np * PrefixCost(f, i, wn, wr) - k * TotalCost(f, wn, wr))

\* The row boundary closest to k * total / np; of two boundaries equally
\* close the later one, so the boundary row goes to the lower rank.
Boundary(f, k, np, wn, wr) ==
    SetMax({i \in 0 .. Len(f) :
              \A j \in 0 .. Len(f) :
                 Distance(f, i, k, np, wn, wr) <= Distance(f, j, k, np, wn, wr)})

BalancedEnd(f, np, k, wn, wr) ==
    IF TotalCost(f, wn, wr) = 0
    THEN DefaultEnd(Len(f), np, k)
    ELSE Boundary(f, k + 1, np, wn, wr)

PartitionEnd(f, np, k, redis, wn, wr) ==
    IF redis THEN BalancedEnd(f, np, k, wn, wr) ELSE DefaultEnd(Len(f), np, k)

MatLoadBSMAT(f, np, redis, wn, wr) ==
    [m |-> Len(f), np |-> np, file |-> f,
     rowStart |-> [k \in 0 .. np - 1 |->
                     IF k = 0 THEN 0 ELSE PartitionEnd(f, np, k - 1, redis, wn, wr)],
     rowEnd |-> [k \in 0 .. np - 1 |-> PartitionEnd(f, np, k, redis, wn, wr)],
     redistributed |-> redis, wnnz |-> wn, wrows |-> wr, loaded |-> TRUE]

\* MatGetSize, MatGetLocalSize, MatGetNonzeroCount on a loaded matrix.
LocalRows(M, k) == M.rowEnd[k] - M.rowStart[k]
LocalCols(M, k) == LocalRows(M, k)

RECURSIVE SumRows(_, _, _)
SumRows(f, lo, hi) == IF lo >= hi THEN 0 ELSE f[lo + 1] + SumRows(f, lo + 1, hi)

LocalNz(M, k) == SumRows(M.file, M.rowStart[k], M.rowEnd[k])
TotalNz(M) == SumRows(M.file, 0, M.m)

(***************************************************************************)
(* The driver: main, WriteHeader, WriteSimpleMatrixStats.                  *)
(***************************************************************************)
\* The driver runs load the empty matrix or one of MaxDriverRows rows of
\* MaxDeg non-zeros each.
DriverFiles == {[i \in 1 .. n |-> MaxDeg] : n \in {0, MaxDriverRows}}

\* The collective operations, as they are named in trace.
CBarrier == <<"barrier", 0>>
CLoad == <<"load", 0>>
CReduce(k) == <<"reduce", k>>
CFinalize == <<"finalize", 0>>

Init ==
    /\ size \in 1 .. NProcs
    /\ argc \in {MinArgc - 1, MinArgc}
    /\ hasM \in BOOLEAN
    /\ optScript \in BOOLEAN
    /\ pc = [p \in Procs |-> "init"]
    /\ exitCode = [p \in Procs |-> 0]
    /\ finalized = [p \in Procs |-> FALSE]
    /\ errSeen = [p \in Procs |-> FALSE]
    /\ printed = [p \in Procs |-> {}]
    /\ ran = [p \in Procs |-> {}]
    /\ script = [p \in Procs |-> FALSE]
    /\ rk = [p \in Procs |-> 0]
    /\ trace = [p \in Procs |-> <<>>]
    /\ barrierArrived = {}
    /\ loadArrived = {}
    /\ loadResult = MPI_SUCCESS
    /\ contrib = [k \in 1 .. NumReductions |-> {}]
    /\ A = NoMat
    /\ stats = <<>>
    /\ engPc = "idle"
    /\ engRet = MPI_SUCCESS
    /\ alpha = DefaultAlpha
    /\ pvec = <<>>
    /\ yielded = NoResult

\* return (code) from main on process p.
Return(p, code) ==
    /\ pc' = [pc EXCEPT ![p] = "done"]
    /\ exitCode' = [exitCode EXCEPT ![p] = code]

\* CHKERRQ(ierr) in main: a nonzero ierr is returned at once.
ReturnError(p, e) ==
    /\ Return(p, e)
    /\ errSeen' = [errSeen EXCEPT ![p] = TRUE]

\* ierr=PetscInitialize(...); CHKERRQ(ierr);
PetscInitialize(p) ==
    /\ pc[p] = "init"
    /\ \E e \in Outcomes :
          IF e = MPI_SUCCESS
          THEN /\ pc' = [pc EXCEPT ![p] = "argc"]
               /\ UNCHANGED <<exitCode, errSeen>>
          ELSE ReturnError(p, e)
    /\ UNCHANGED <<finalized, printed, ran, script, rk, trace, barrierArrived,
                   loadArrived, loadResult, contrib, stats, A>>
    /\ UNCHANGED <<optionVars, engineVars>>

\* if (argc < 2) { PetscPrintf(help); PetscFinalize(); return (-1); }
CheckArgc(p) ==
    /\ pc[p] = "argc"
    /\ IF argc < MinArgc
       THEN /\ printed' = [printed EXCEPT ![p] = @ \cup {"help"}]
            /\ finalized' = [finalized EXCEPT ![p] = TRUE]
            /\ trace' = [trace EXCEPT ![p] = Append(@, CFinalize)]
            /\ Return(p, ExitError)
       ELSE /\ pc' = [pc EXCEPT ![p] = "getm"]
            /\ UNCHANGED <<printed, finalized, trace, exitCode>>
    /\ UNCHANGED <<errSeen, ran, script, rk, barrierArrived, loadArrived,
                   loadResult, contrib, stats, A>>
    /\ UNCHANGED <<optionVars, engineVars>>

\* ierr=PetscOptionsGetString(PETSC_NULL,"-m",...,&option_flag); CHKERRQ(ierr);
GetMatrixFilename(p) ==
    /\ pc[p] = "getm"
    /\ \E e \in Outcomes :
          IF e = MPI_SUCCESS
          THEN /\ pc' = [pc EXCEPT ![p] = "checkm"]
               /\ UNCHANGED <<exitCode, errSeen>>
          ELSE ReturnError(p, e)
    /\ UNCHANGED <<finalized, printed, ran, script, rk, trace, barrierArrived,
                   loadArrived, loadResult, contrib, stats, A>>
    /\ UNCHANGED <<optionVars, engineVars>>

\* CheckMatrixFilename without the return (-1): the error is printed and
\* main goes on.
CheckMatrixFilenameNoReturn(p) ==
    /\ pc[p] = "checkm"
    /\ IF ~hasM
       THEN /\ printed' = [printed EXCEPT ![p] = @ \cup {"opterr"}]
            /\ finalized' = [finalized EXCEPT ![p] = TRUE]
            /\ trace' = [trace EXCEPT ![p] = Append(@, CFinalize)]
       ELSE UNCHANGED <<printed, finalized, trace>>
    /\ pc' = [pc EXCEPT ![p] = "script"]
    /\ UNCHANGED <<exitCode, errSeen, ran, script, rk, barrierArrived, loadArrived,
                   loadResult, contrib, stats, A>>
    /\ UNCHANGED <<optionVars, engineVars>>

\* if (!option_flag) { PetscPrintf("Options error..."); PetscFinalize(); return (-1); }
CheckMatrixFilename(p) ==
    /\ pc[p] = "checkm"
    /\ IF ~hasM
       THEN /\ printed' = [printed EXCEPT ![p] = @ \cup {"opterr"}]
            /\ finalized' = [finalized EXCEPT ![p] = TRUE]
            /\ trace' = [trace EXCEPT ![p] = Append(@, CFinalize)]
            /\ Return(p, ExitError)
       ELSE /\ pc' = [pc EXCEPT ![p] = "script"]
            /\ UNCHANGED <<printed, finalized, trace, exitCode>>
    /\ UNCHANGED <<errSeen, ran, script, rk, barrierArrived, loadArrived,
                   loadResult, contrib, stats, A>>
    /\ UNCHANGED <<optionVars, engineVars>>

\* ierr=PetscOptionsHasName(PETSC_NULL,"-script",&script);  ierr is not
\* tested; when the call fails script was never written and holds any value.
GetScript(p) ==
    /\ pc[p] = "script"
    /\ \E e \in Outcomes :
          IF e = MPI_SUCCESS
          THEN /\ script' = [script EXCEPT ![p] = optScript]
               /\ UNCHANGED errSeen
          ELSE /\ \E b \in BOOLEAN : script' = [script EXCEPT ![p] = b]
               /\ errSeen' = [errSeen EXCEPT ![p] = TRUE]
    /\ pc' = [pc EXCEPT ![p] = "wh_size"]
    /\ UNCHANGED <<exitCode, finalized, printed, ran, rk, trace, barrierArrived,
                   loadArrived, loadResult, contrib, stats, A>>
    /\ UNCHANGED <<optionVars, engineVars>>

\* WriteHeader(): the banner, then ierr=MPI_Comm_size(...); CHKERRQ(ierr);
\* main does not test what WriteHeader returns and goes on to the load.
WriteHeaderCommSize(p) ==
    /\ pc[p] = "wh_size"
    /\ ran' = [ran EXCEPT ![p] = @ \cup {"WriteHeader"}]
    /\ printed' = [printed EXCEPT ![p] = @ \cup {"banner"}]
    /\ \E e \in Outcomes :
          IF e = MPI_SUCCESS
          THEN /\ pc' = [pc EXCEPT ![p] = "wh_rank"]
               /\ UNCHANGED errSeen
          ELSE /\ pc' = [pc EXCEPT ![p] = "load"]
               /\ errSeen' = [errSeen EXCEPT ![p] = TRUE]
    /\ UNCHANGED <<exitCode, finalized, script, rk, trace, barrierArrived,
                   loadArrived, loadResult, contrib, stats, A>>
    /\ UNCHANGED <<optionVars, engineVars>>

\* ierr=MPI_Comm_rank(...); CHKERRQ(ierr);
WriteHeaderCommRank(p) ==
    /\ pc[p] = "wh_rank"
    /\ \E e \in Outcomes :
          IF e = MPI_SUCCESS
          THEN /\ pc' = [pc EXCEPT ![p] = "wh_barrier"]
               /\ UNCHANGED errSeen
          ELSE /\ pc' = [pc EXCEPT ![p] = "load"]
               /\ errSeen' = [errSeen EXCEPT ![p] = TRUE]
    /\ UNCHANGED <<exitCode, finalized, printed, ran, script, rk, trace,
                   barrierArrived, loadArrived, loadResult, contrib, stats, A>>
    /\ UNCHANGED <<optionVars, engineVars>>

\* The prints of nprocs and of the processor name, then the process enters
\* MPI_Barrier(PETSC_COMM_WORLD).
WriteHeaderBarrierEnter(p) ==
    /\ pc[p] = "wh_barrier"
    /\ printed' = [printed EXCEPT ![p] = @ \cup {"nprocs"}]
    /\ barrierArrived' = barrierArrived \cup {p}
    /\ trace' = [trace EXCEPT ![p] = Append(@, CBarrier)]
    /\ pc' = [pc EXCEPT ![p] = "wh_barrier_wait"]
    /\ UNCHANGED <<exitCode, finalized, errSeen, ran, script, rk, loadArrived,
                   loadResult, contrib, stats, A>>
    /\ UNCHANGED <<optionVars, engineVars>>

\* The barrier lets a process go once every process of the group is in it.
\* ierr=MPI_Barrier(...); CHKERRQ(ierr); return (MPI_SUCCESS);
WriteHeaderBarrierReturn(p) ==
    /\ pc[p] = "wh_barrier_wait"
    /\ barrierArrived = Procs
    /\ \E e \in Outcomes :
          errSeen' = [errSeen EXCEPT ![p] = @ \/ (e # MPI_SUCCESS)]
    /\ pc' = [pc EXCEPT ![p] = "load"]
    /\ UNCHANGED <<exitCode, finalized, printed, ran, script, rk, trace,
                   barrierArrived, loadArrived, loadResult, contrib, stats, A>>
    /\ UNCHANGED <<optionVars, engineVars>>

\* ierr=MatLoadBSMAT(PETSC_COMM_WORLD,matrix_filename,&A): the process
\* enters the load.  The load is collective; when the last process of the
\* group enters it the file is read, the matrix built and the result of
\* the load decided for the whole group.
MatLoadEnter(p) ==
    /\ pc[p] = "load"
    /\ ran' = [ran EXCEPT ![p] = @ \cup {"MatLoadBSMAT"}]
    /\ trace' = [trace EXCEPT ![p] = Append(@, CLoad)]
    /\ loadArrived' = loadArrived \cup {p}
    /\ IF loadArrived' = Procs
       THEN \E e \in Outcomes :
               /\ loadResult' = e
               /\ IF e = MPI_SUCCESS
                  THEN \E f \in DriverFiles, redis \in BOOLEAN :
                          A' = MatLoadBSMAT(f, size, redis, DefaultWeight, DefaultWeight)
                  ELSE A' = A
       ELSE UNCHANGED <<loadResult, A>>
    /\ pc' = [pc EXCEPT ![p] = "load_wait"]
    /\ UNCHANGED <<exitCode, finalized, errSeen, printed, script, rk,
                   barrierArrived, contrib, stats>>
    /\ UNCHANGED <<optionVars, engineVars>>

\* CHKERRQ(ierr) after the load; on success main calls
\* WriteSimpleMatrixStats(matrix_filename, A).
MatLoadReturn(p) ==
    /\ pc[p] = "load_wait"
    /\ loadArrived = Procs
    /\ IF loadResult = MPI_SUCCESS
       THEN /\ pc' = [pc EXCEPT ![p] = "reduce"]
            /\ rk' = [rk EXCEPT ![p] = 1]
            /\ ran' = [ran EXCEPT ![p] = @ \cup {"WriteSimpleMatrixStats"}]
            /\ UNCHANGED <<exitCode, errSeen>>
       ELSE /\ ReturnError(p, loadResult)
            /\ UNCHANGED <<rk, ran>>
    /\ UNCHANGED <<finalized, printed, script, trace, barrierArrived,
                   loadArrived, loadResult, contrib, stats, A>>
    /\ UNCHANGED <<optionVars, engineVars>>

\* The value process q gives to reduction k, and what rank 0 receives.
ReduceInput(k, q) ==
    IF k <= 2 THEN LocalRows(A, q)
    ELSE IF k <= 4 THEN LocalCols(A, q)
    ELSE LocalNz(A, q)

ReduceResult(k) ==
    IF k % 2 = 1
    THEN SetMax({ReduceInput(k, q) : q \in Procs})
    ELSE SetMin({ReduceInput(k, q) : q \in Procs})

\* After reduction k of WriteSimpleMatrixStats returned e on process p:
\* CHKERRQ leaves the function on an error, the last reduction is followed
\* by the prints; main does not test what the function returns.
AfterReduce(p, k, e) ==
    /\ errSeen' = [errSeen EXCEPT ![p] = @ \/ (e # MPI_SUCCESS)]
    /\ IF e = MPI_SUCCESS /\ k < NumReductions
       THEN /\ pc' = [pc EXCEPT ![p] = "reduce"]
            /\ rk' = [rk EXCEPT ![p] = k + 1]
            /\ UNCHANGED printed
       ELSE /\ pc' = [pc EXCEPT ![p] = "branch"]
            /\ rk' = [rk EXCEPT ![p] = 0]
            /\ printed' = [printed EXCEPT ![p] =
                             IF e = MPI_SUCCESS THEN @ \cup {"stats"} ELSE @]

\* ierr=MPI_Reduce(...,0,comm); CHKERRQ(ierr); on a rank other than 0: the
\* process hands over its value and goes on.
ReduceSend(p) ==
    /\ pc[p] = "reduce"
    /\ p # Root
    /\ contrib' = [contrib EXCEPT ![rk[p]] = @ \cup {p}]
    /\ trace' = [trace EXCEPT ![p] = Append(@, CReduce(rk[p]))]
    /\ \E e \in Outcomes : AfterReduce(p, rk[p], e)
    /\ UNCHANGED <<exitCode, finalized, ran, script, barrierArrived,
                   loadArrived, loadResult, stats, A>>
    /\ UNCHANGED <<optionVars, engineVars>>

\* Rank 0 enters the reduction ...
ReduceRootEnter(p) ==
    /\ pc[p] = "reduce"
    /\ p = Root
    /\ contrib' = [contrib EXCEPT ![rk[p]] = @ \cup {p}]
    /\ trace' = [trace EXCEPT ![p] = Append(@, CReduce(rk[p]))]
    /\ pc' = [pc EXCEPT ![p] = "reduce_wait"]
    /\ UNCHANGED <<exitCode, finalized, errSeen, printed, ran, script, rk,
                   barrierArrived, loadArrived, loadResult, stats, A>>
    /\ UNCHANGED <<optionVars, engineVars>>

\* ... and leaves it when it has the value of every process.
ReduceRootReturn(p) ==
    /\ pc[p] = "reduce_wait"
    /\ contrib[rk[p]] = Procs
    /\ \E e \in Outcomes :
          /\ AfterReduce(p, rk[p], e)
          /\ stats' = IF e = MPI_SUCCESS
                      THEN Append(stats, ReduceResult(rk[p]))
                      ELSE stats
    /\ UNCHANGED <<exitCode, finalized, ran, script, trace, barrierArrived,
                   loadArrived, loadResult, contrib, A>>
    /\ UNCHANGED <<optionVars, engineVars>>

\* if (script) { } else { //ierr=ComputePageRank(A); CHKERRQ(ierr); }
\* Both branches are empty: the call of ComputePageRank is commented out.
ScriptBranch(p) ==
    /\ pc[p] = "branch"
    /\ pc' = [pc EXCEPT ![p] = IF script[p] THEN "finalize" ELSE "finalize"]
    /\ UNCHANGED <<exitCode, finalized, errSeen, printed, ran, script, rk, trace,
                   barrierArrived, loadArrived, loadResult, contrib, stats, A>>
    /\ UNCHANGED <<optionVars, engineVars>>

\* PetscFinalize(); return (0);
FinalizeAndReturn(p) ==
    /\ pc[p] = "finalize"
    /\ finalized' = [finalized EXCEPT ![p] = TRUE]
    /\ trace' = [trace EXCEPT ![p] = Append(@, CFinalize)]
    /\ Return(p, 0)
    /\ UNCHANGED <<errSeen, printed, ran, script, rk, barrierArrived,
                   loadArrived, loadResult, contrib, stats, A>>
    /\ UNCHANGED <<optionVars, engineVars>>

Next ==
    \/ \E p \in Procs : PetscInitialize(p)
    \/ \E p \in Procs : CheckArgc(p)
    \/ \E p \in Procs : GetMatrixFilename(p)
    \/ \E p \in Procs : CheckMatrixFilename(p)
    \/ \E p \in Procs : GetScript(p)
    \/ \E p \in Procs : WriteHeaderCommSize(p)
    \/ \E p \in Procs : WriteHeaderCommRank(p)
    \/ \E p \in Procs : WriteHeaderBarrierEnter(p)
    \/ \E p \in Procs : WriteHeaderBarrierReturn(p)
    \/ \E p \in Procs : MatLoadEnter(p)
    \/ \E p \in Procs : MatLoadReturn(p)
    \/ \E p \in Procs : ReduceSend(p)
    \/ \E p \in Procs : ReduceRootEnter(p)
    \/ \E p \in Procs : ReduceRootReturn(p)
    \/ \E p \in Procs : ScriptBranch(p)
    \/ \E p \in Procs : FinalizeAndReturn(p)

Spec == Init /\ [][Next]_vars

(***************************************************************************)
(* Claims about the driver, checked under Spec.                            *)
(***************************************************************************)
LoadSteps == {"MatLoadBSMAT", "WriteHeader", "WriteSimpleMatrixStats"}

\* C1, as stated: started without -m, a process never runs the load,
\* WriteHeader or WriteSimpleMatrixStats, and when it has returned from main
\* it has reported the options error, called PetscFinalize and returned a
\* nonzero code.
C1_AsStated ==
    \A p \in Procs :
        ~hasM =>
            /\ ran[p] \cap LoadSteps = {}
            /\ pc[p] = "done" =>
                  /\ "opterr" \in printed[p]
                  /\ finalized[p]
                  /\ exitCode[p] # 0

\* C1, amended: started without -m, a process never runs the load,
\* WriteHeader or WriteSimpleMatrixStats and returns a nonzero code.  When
\* PetscInitialize and the lookup of -m succeeded it has called PetscFinalize
\* and returned -1, after printing the usage text when argc < 2 and the
\* options error otherwise; when one of them failed it has returned that
\* error code without a message and without PetscFinalize.
C1_NoMatrixOption ==
    \A p \in Procs :
        ~hasM =>
            /\ ran[p] \cap LoadSteps = {}
            /\ pc[p] \in {"init", "argc", "getm", "checkm", "done"}
            /\ pc[p] = "done" =>
                  /\ exitCode[p] # 0
                  /\ ~errSeen[p] =>
                        /\ finalized[p]
                        /\ exitCode[p] = ExitError
                        /\ printed[p] = IF argc < MinArgc THEN {"help"} ELSE {"opterr"}
                  /\ errSeen[p] =>
                        /\ ~finalized[p]
                        /\ exitCode[p] \in ErrCodes
                        /\ printed[p] = {}

\* A run without -m and with arguments in which a process reported the
\* options error, finalized and returned.
C1_Witness ==
    /\ ~hasM
    /\ argc >= MinArgc
    /\ \E p \in Procs :
          /\ pc[p] = "done"
          /\ "opterr" \in printed[p]
          /\ finalized[p]
          /\ exitCode[p] = ExitError

\* C2: the processes that returned from main agree on success (code 0) or
\* failure (a nonzero code): a nonzero code when a call returned an error on
\* any process, and 0 when the options are valid and no call returned an
\* error.
C2_SameExitCode ==
    \A p \in Procs, q \in Procs :
        (pc[p] = "done" /\ pc[q] = "done") =>
            /\ (exitCode[p] = 0) <=> (exitCode[q] = 0)
            /\ (\E r \in Procs : errSeen[r]) => exitCode[p] # 0
            /\ (hasM /\ argc >= MinArgc /\ \A r \in Procs : ~errSeen[r]) => exitCode[p] = 0

\* C3: a process that returned 0 from main in a run without -script, in
\* which every call succeeded, has called ComputePageRank.
C3_EngineRan ==
    \A p \in Procs :
        (pc[p] = "done" /\ exitCode[p] = 0 /\ ~optScript /\ ~script[p] /\ ~errSeen[p]) =>
            "ComputePageRank" \in ran[p]

\* The place of a collective in main, and the first collective a process at
\* a given position can still enter.
CollectiveOrd(c) ==
    IF c = CBarrier THEN 1
    ELSE IF c = CLoad THEN 2
    ELSE IF c = CFinalize THEN 3 + NumReductions
    ELSE 2 + c[2]

NextCollectiveOrd(p) ==
    IF pc[p] \in {"init", "argc", "getm", "checkm", "script", "wh_size", "wh_rank",
                  "wh_barrier"} THEN 1
    ELSE IF pc[p] \in {"wh_barrier_wait", "load"} THEN 2
    ELSE IF pc[p] = "load_wait" THEN 3
    ELSE IF pc[p] = "reduce" THEN 2 + rk[p]
    ELSE IF pc[p] = "reduce_wait" THEN 3 + rk[p]
    ELSE IF pc[p] \in {"branch", "finalize"} THEN 3 + NumReductions
    ELSE 4 + NumReductions

Entered(p, c) == \E i \in 1 .. Len(trace[p]) : trace[p][i] = c

\* Process q is past the place of collective c and did not enter it.
NeverEnters(q, c) == ~Entered(q, c) /\ CollectiveOrd(c) < NextCollectiveOrd(q)

\* Process p is inside collective c, waiting for the rest of the group.
BlockedIn(p, c) ==
    \/ pc[p] = "wh_barrier_wait" /\ c = CBarrier
    \/ pc[p] = "load_wait" /\ c = CLoad
    \/ pc[p] = "reduce_wait" /\ c = CReduce(rk[p])

Collectives ==
    {CBarrier, CLoad, CFinalize} \cup {CReduce(k) : k \in 1 .. NumReductions}

IsPrefix(s, t) == Len(s) <= Len(t) /\ \A i \in 1 .. Len(s) : s[i] = t[i]

\* C4: of any two processes that got as far as WriteHeader, the sequences
\* of collectives they have entered agree (one is a prefix of the other),
\* and neither waits in a collective that the other will never enter.
C4_Lockstep ==
    \A p \in Procs, q \in Procs :
        ("WriteHeader" \in ran[p] /\ "WriteHeader" \in ran[q]) =>
            /\ IsPrefix(trace[p], trace[q]) \/ IsPrefix(trace[q], trace[p])
            /\ \A c \in Collectives : BlockedIn(p, c) => ~NeverEnters(q, c)

(***************************************************************************)
(* The loader on its own: a group of up to MaxProcs processes loads a file *)
(* of up to MaxRows rows, with the default partition or with               *)
(* -matload_redistribute and its two weights.                              *)
(***************************************************************************)
LoaderFiles == FilesUpTo(MaxRows)

InitLoad ==
    /\ size \in 1 .. MaxProcs
    /\ argc = MinArgc
    /\ hasM = TRUE
    /\ optScript = FALSE
    /\ pc = [p \in Procs |-> "load"]
    /\ exitCode = [p \in Procs |-> 0]
    /\ finalized = [p \in Procs |-> FALSE]
    /\ errSeen = [p \in Procs |-> FALSE]
    /\ printed = [p \in Procs |-> {"banner", "nprocs"}]
    /\ ran = [p \in Procs |-> {"WriteHeader"}]
    /\ script = [p \in Procs |-> FALSE]
    /\ rk = [p \in Procs |-> 0]
    /\ trace = [p \in Procs |-> <<CBarrier>>]
    /\ barrierArrived = Procs
    /\ loadArrived = {}
    /\ loadResult = MPI_SUCCESS
    /\ contrib = [k \in 1 .. NumReductions |-> {}]
    /\ A = NoMat
    /\ stats = <<>>
    /\ engPc = "idle"
    /\ engRet = MPI_SUCCESS
    /\ alpha = DefaultAlpha
    /\ pvec = <<>>
    /\ yielded = NoResult

\* The whole group is in MatLoadBSMAT and the load succeeds.
GroupLoads(M) ==
    /\ A' = M
    /\ loadArrived' = Procs
    /\ pc' = [p \in Procs |-> "load_wait"]
    /\ ran' = [p \in Procs |-> ran[p] \cup {"MatLoadBSMAT"}]
    /\ trace' = [p \in Procs |-> Append(trace[p], CLoad)]
    /\ UNCHANGED <<exitCode, finalized, errSeen, printed, script, rk,
                   barrierArrived, loadResult, contrib, stats>>
    /\ UNCHANGED <<optionVars, engineVars>>

\* MatLoadBSMAT without -matload_redistribute.
MatLoadDefault ==
    /\ loadArrived = {}
    /\ \E f \in LoaderFiles :
          GroupLoads(MatLoadBSMAT(f, size, FALSE, DefaultWeight, DefaultWeight))

\* MatLoadBSMAT with -matload_redistribute and the weights
\* -matload_redistribute_wnnz, -matload_redistribute_wrows.
MatLoadRedistribute ==
    /\ loadArrived = {}
    /\ \E f \in LoaderFiles, wn \in Weights, wr \in Weights :
          GroupLoads(MatLoadBSMAT(f, size, TRUE, wn, wr))

NextLoad == MatLoadDefault \/ MatLoadRedistribute

SpecLoad == InitLoad /\ [][NextLoad]_vars

Ranks(M) == 0 .. (M.np - 1)
Owners(M, r) == {k \in Ranks(M) : M.rowStart[k] <= r /\ r < M.rowEnd[k]}

\* C7: the row ranges of a loaded matrix, redistributed or not, are
\* contiguous, start at row 0, end at row n, and every row is owned by
\* exactly one process.
C7_RowPartition ==
    A.loaded =>
        /\ A.rowStart[0] = 0
        /\ A.rowEnd[A.np - 1] = A.m
        /\ \A k \in Ranks(A) : A.rowStart[k] <= A.rowEnd[k]
        /\ \A k \in Ranks(A) : k > 0 => A.rowStart[k] = A.rowEnd[k - 1]
        /\ \A r \in 0 .. (A.m - 1) : Cardinality(Owners(A, r)) = 1

\* A matrix of several rows redistributed over several processes with both
\* weights 0, so that total_cost = 0.
C7_Witness ==
    /\ A.loaded
    /\ A.redistributed
    /\ A.wnnz = 0
    /\ A.wrows = 0
    /\ A.m >= 2
    /\ A.np >= 2
    /\ \A r \in 0 .. (A.m - 1) : Cardinality(Owners(A, r)) = 1

WeightedLoad(M, k) == M.wrows * LocalRows(M, k) + M.wnnz * LocalNz(M, k)
TotalLoad(M) == M.wrows * M.m + M.wnnz * TotalNz(M)
MaxRowLoad(M) ==
    IF M.m = 0 THEN 0
    ELSE SetMax({M.wrows + M.wnnz * M.file[i] : i \in 1 .. M.m})

\* C8: after the balancer no process has a weighted load above
\* total_cost / num_processes plus the cost of the costliest row
\* (both sides multiplied by num_processes).
C8_LoadBound ==
    (A.loaded /\ A.redistributed) =>
        \A k \in Ranks(A) :
            A.np * WeightedLoad(A, k) <= TotalLoad(A) + A.np * MaxRowLoad(A)

\* A redistributed matrix on several processes in which one row owns more
\* than half of the non-zeros and the process owning it carries more than
\* its share.
C8_Witness ==
    /\ A.loaded
    /\ A.redistributed
    /\ A.np >= 2
    /\ A.m >= 3
    /\ A.wnnz > 0
    /\ \E i \in 1 .. A.m : 2 * A.file[i] > TotalNz(A)
    /\ \E k \in Ranks(A) : A.np * WeightedLoad(A, k) > TotalLoad(A)

(***************************************************************************)
(* ComputePageRank on its own: the function is called on a loaded matrix   *)
(* with -alpha and -pvec in the options database.                          *)
(***************************************************************************)
EngineFiles == LoaderFiles \ {<<>>}
Alphas == {0, DefaultAlpha}

RECURSIVE SumSeq(_)
SumSeq(v) == IF Len(v) = 0 THEN 0 ELSE v[1] + SumSeq(Tail(v))

\* The personalization vectors over n nodes that sum to 1, in units of
\* 1/PDenom.
PVecs(n) == {v \in [1 .. n -> 0 .. PDenom] : SumSeq(v) = PDenom}

InitEngine ==
    /\ size \in 1 .. NProcs
    /\ argc = MinArgc
    /\ hasM = TRUE
    /\ optScript = FALSE
    /\ pc = [p \in Procs |-> "load_wait"]
    /\ exitCode = [p \in Procs |-> 0]
    /\ finalized = [p \in Procs |-> FALSE]
    /\ errSeen = [p \in Procs |-> FALSE]
    /\ printed = [p \in Procs |-> {"banner", "nprocs"}]
    /\ ran = [p \in Procs |-> {"WriteHeader", "MatLoadBSMAT"}]
    /\ script = [p \in Procs |-> FALSE]
    /\ rk = [p \in Procs |-> 0]
    /\ trace = [p \in Procs |-> <<CBarrier, CLoad>>]
    /\ barrierArrived = Procs
    /\ loadArrived = Procs
    /\ loadResult = MPI_SUCCESS
    /\ contrib = [k \in 1 .. NumReductions |-> {}]
    /\ \E f \in EngineFiles :
          A = MatLoadBSMAT(f, size, FALSE, DefaultWeight, DefaultWeight)
    /\ stats = <<>>
    /\ engPc = "called"
    /\ engRet = MPI_SUCCESS
    /\ alpha \in Alphas
    /\ pvec \in PVecs(A.m)
    /\ yielded = NoResult

\* PetscErrorCode ComputePageRank(Mat A) { return (MPI_SUCCESS); }
\* The body is empty: no option is read, no vector is created, nothing is
\* iterated and nothing but the error code goes back to the caller.
ComputePageRank ==
    /\ engPc = "called"
    /\ engPc' = "returned"
    /\ engRet' = MPI_SUCCESS
    /\ UNCHANGED <<alpha, pvec, yielded, A>>
    /\ UNCHANGED <<optionVars, driverVars>>

NextEngine == ComputePageRank

SpecEngine == InitEngine /\ [][NextEngine]_vars

\* C5: when ComputePageRank has returned, on a graph with or without
\* dangling rows, the vector it holds sums to 1 (PDenom units of 1/PDenom).
C5_MassConserved ==
    engPc = "returned" => SumSeq(yielded.vec) = PDenom

\* C6: when ComputePageRank has returned it has reached one of the terminal
\* states Converged and DivergedOrMaxIterExceeded and reports the vector of
\* its last iteration.
C6_Terminates ==
    engPc = "returned" =>
        /\ yielded.state \in {"Converged", "DivergedOrMaxIterExceeded"}
        /\ yielded.iter >= 1
        /\ Len(yielded.vec) = A.m

\* C9: with alpha = 0 ComputePageRank has, when it returns, converged after
\* exactly one iteration to the personalization vector.
C9_AlphaZero ==
    (engPc = "returned" /\ alpha = 0) =>
        /\ yielded.state = "Converged"
        /\ yielded.iter = 1
        /\ yielded.vec = pvec

====
